---- MODULE Spec2Model ----
(***************************************************************************)
(* RPNBuilderTreeNode / RPNBuilderFunctionTreeNode / RPNBuilderTreeContext *)
(* of src/Storages/MergeTree/RPNBuilder.cpp: a node handle over either a   *)
(* syntax-tree node (IAST) or an action-graph node (ActionsDAG::Node), and  *)
(* the operations the key-condition analysis calls on it.                  *)
(*                                                                         *)
(* State: the tree context of the analysis pass, the node handle under     *)
(* inspection, and the last call made on it with its outcome.  One action  *)
(* per member function.                                                    *)
(***************************************************************************)
EXTENDS Integers, Sequences, FiniteSets, TLC

VARIABLES tree_context, node, is_function_view, call, ret

vars == <<tree_context, node, is_function_view, call, ret>>

(***************************************************************************)
(* Bounds of the model.                                                    *)
(***************************************************************************)
\* Largest number of ActionsDAG nodes in one action-graph expression.
MaxNodes == 4
\* Largest number of entries of a prepared-set registry.
MaxSets == 2

(***************************************************************************)
(* Values: Field, data type, Set, column.                                  *)
(***************************************************************************)
nullptr == [ptr |-> "null"]

NullField == [is_null |-> TRUE, num |-> 0]
IntField(n) == [is_null |-> FALSE, num |-> n]

\* Field::isNull()
isNull(f) == f.is_null

\* applyVisitor(FieldVisitorToString(), field): the textual form of a value.
FieldToString(f) == IF f.is_null THEN "NULL" ELSE ToString(f.num)

DataType(name, nullable) == [name |-> name, nullable |-> nullable]
NoType == DataType("", FALSE)
UInt8 == DataType("UInt8", FALSE)
NullableUInt8 == DataType("UInt8", TRUE)
StringType == DataType("String", FALSE)

\* removeNullable(type): the type without its Nullable wrapper.
removeNullable(t) == [t EXCEPT !.nullable = FALSE]

\* applyVisitor(FieldToDataType(), value): the type of a literal's value.
FieldToDataType(f) == IF f.is_null THEN DataType("Nothing", TRUE) ELSE UInt8

\* A Set: the element types it was prepared with and Set::isCreated().
NoSet == [is_null |-> TRUE, data_types |-> <<>>, is_created |-> FALSE]
MakeSet(types, created) == [is_null |-> FALSE, data_types |-> types, is_created |-> created]

\* Set::isCreated()
isCreated(set) == set.is_created

\* Set::areTypesEqual(set_type_idx, other_type), set_type_idx counted from 0.
areTypesEqual(set, set_type_idx, other_type) == set.data_types[set_type_idx + 1] = other_type

\* Columns: none (null pointer), a full column, ColumnConst, ColumnSet, and
\* ColumnConst whose data column is a ColumnSet.
NoColumn == [kind |-> "null", field |-> NullField, set |-> NoSet]
FullColumn == [kind |-> "full", field |-> NullField, set |-> NoSet]
ColumnConst(f) == [kind |-> "const", field |-> f, set |-> NoSet]
ColumnSet(s) == [kind |-> "set", field |-> NullField, set |-> s]
ColumnConstOfSet(s) == [kind |-> "const", field |-> NullField, set |-> s]

\* isColumnConst(column), typeid_cast<const ColumnConst *>(column)
isColumnConst(c) == c.kind = "const"

\* ColumnConst::getField(), (*column)[0] of a constant column
getField(c) == c.field

\* ColumnConst::getDataColumn(): the column a constant wrapper holds.
getDataColumn(c) == IF c.set.is_null THEN FullColumn ELSE ColumnSet(c.set)

\* typeid_cast<const ColumnSet *>(column)
isColumnSet(c) == c.kind = "set"

\* ColumnSet::getData()
getData(c) == c.set

(***************************************************************************)
(* Block with constants.                                                   *)
(***************************************************************************)
ColumnWithTypeAndName(name, type, column) == [name |-> name, type |-> type, column |-> column]

\* Block::has(name)
has(block, name) == \E e \in block : e.name = name

\* Block::getByName(name): the entry, or a failure when the name is absent.
getByName(block, name) ==
    IF has(block, name)
    THEN [found |-> TRUE, entry |-> CHOOSE e \in block : e.name = name]
    ELSE [found |-> FALSE, entry |-> ColumnWithTypeAndName(name, NoType, NoColumn)]

(***************************************************************************)
(* Syntax tree (IAST).                                                     *)
(***************************************************************************)
ASTLiteral(value, alias) ==
    [kind |-> "ASTLiteral", name |-> "", alias |-> alias, value |-> value,
     tree_hash |-> "hash_literal", children |-> <<>>]
ASTIdentifier(name) ==
    [kind |-> "ASTIdentifier", name |-> name, alias |-> "", value |-> NullField,
     tree_hash |-> "hash_identifier", children |-> <<>>]
ASTFunction(name, hash, arguments) ==
    [kind |-> "ASTFunction", name |-> name, alias |-> "", value |-> NullField,
     tree_hash |-> hash, children |-> arguments]
ASTSubquery ==
    [kind |-> "ASTSubquery", name |-> "_subquery1", alias |-> "", value |-> NullField,
     tree_hash |-> "hash_subquery", children |-> <<>>]
ASTTableIdentifier ==
    [kind |-> "ASTTableIdentifier", name |-> "t", alias |-> "", value |-> NullField,
     tree_hash |-> "hash_subquery", children |-> <<>>]

RECURSIVE astColumnNameWithoutAlias(_)
RECURSIVE astArguments(_, _)

\* The comma-joined names of children[i..] of a syntax-tree function.
astArguments(children, i) ==
    IF i > Len(children) THEN ""
    ELSE (IF i > 1 THEN ", " ELSE "") \o astColumnNameWithoutAlias(children[i])
         \o astArguments(children, i + 1)

\* IAST::getColumnNameWithoutAlias()
astColumnNameWithoutAlias(ast) ==
    CASE ast.kind = "ASTLiteral" -> FieldToString(ast.value)
      [] ast.kind = "ASTFunction" -> ast.name \o "(" \o astArguments(ast.children, 1) \o ")"
      [] OTHER -> ast.name

\* IAST::getColumnName(): the alias if the node has one.
astColumnName(ast) == IF ast.alias # "" THEN ast.alias ELSE astColumnNameWithoutAlias(ast)

RECURSIVE moduloToModuloLegacyRecursive(_)
RECURSIVE moduloToModuloLegacyChildren(_, _)

moduloToModuloLegacyChildren(children, i) ==
    IF i > Len(children) THEN <<>>
    ELSE <<moduloToModuloLegacyRecursive(children[i])>> \o moduloToModuloLegacyChildren(children, i + 1)

\* KeyDescription::moduloToModuloLegacyRecursive on a clone of the subtree.
moduloToModuloLegacyRecursive(ast) ==
    [ast EXCEPT !.name = IF ast.kind = "ASTFunction" /\ ast.name = "modulo" THEN "moduleLegacy" ELSE ast.name,
                !.children = moduloToModuloLegacyChildren(ast.children, 1)]

\* IAST::getTreeHash()
getTreeHash(ast) == ast.tree_hash

(***************************************************************************)
(* Action graph (ActionsDAG::Node).                                        *)
(***************************************************************************)
DAGNode(type, result_name, function_name, result_type, column, children) ==
    [type |-> type, result_name |-> result_name, function_name |-> function_name,
     result_type |-> result_type, column |-> column, children |-> children]

Input(name) == DAGNode("INPUT", name, "", UInt8, NoColumn, <<>>)
Column(name, type, column) == DAGNode("COLUMN", name, "", type, column, <<>>)
Alias(name, child) == DAGNode("ALIAS", name, "", child.result_type, child.column, <<child>>)
ArrayJoin(child) == DAGNode("ARRAY_JOIN", "arrayJoin_result", "", child.result_type, NoColumn, <<child>>)
Function(name, children) == DAGNode("FUNCTION", name \o "_result", name, UInt8, NoColumn, children)

RECURSIVE appendColumnNameWithoutAlias(_, _)
RECURSIVE appendArguments(_, _, _)

\* case COLUMN, lines 39-49
appendColumn(dag, legacy) ==
    IF isColumnConst(dag.column) THEN FieldToString(getField(dag.column)) ELSE dag.result_name

\* A slip: the alias is written instead of the aliased child's name.
appendAliasKeepingAlias(dag, legacy) == dag.result_name

\* case ALIAS, lines 50-52
appendAlias(dag, legacy) == appendColumnNameWithoutAlias(dag.children[1], legacy)

\* A slip: the legacy name is written whatever the function is.
legacyNameForEveryFunction(name, legacy) == IF legacy THEN "moduleLegacy" ELSE name

\* lines 60-64: the function name written for a FUNCTION node
appendFunctionName(name, legacy) == IF legacy /\ name = "modulo" THEN "moduleLegacy" ELSE name

\* lines 67-75: the comma-joined names of children[i..]
appendArguments(children, i, legacy) ==
    IF i > Len(children) THEN ""
    ELSE (IF i > 1 THEN ", " ELSE "") \o appendColumnNameWithoutAlias(children[i], legacy)
         \o appendArguments(children, i + 1, legacy)

appendColumnNameWithoutAlias(dag, legacy) ==
    CASE dag.type = "INPUT" -> dag.result_name
      [] dag.type = "COLUMN" -> appendColumn(dag, legacy)
      [] dag.type = "ALIAS" -> appendAlias(dag, legacy)
      [] dag.type = "ARRAY_JOIN" ->
            "arrayJoin(" \o appendColumnNameWithoutAlias(dag.children[1], legacy) \o ")"
      [] dag.type = "FUNCTION" ->
            appendFunctionName(dag.function_name, legacy) \o "("
                \o appendArguments(dag.children, 1, legacy) \o ")"

getColumnNameWithoutAlias(dag, legacy) == appendColumnNameWithoutAlias(dag, legacy)

(***************************************************************************)
(* Prepared-set registry (PreparedSets), keyed by PreparedSetKey.          *)
(***************************************************************************)
\* PreparedSetKey::forSubquery(ast)
forSubquery(ast) == [ast_hash |-> getTreeHash(ast), types |-> <<>>]

\* PreparedSetKey::forLiteral(ast, types)
forLiteral(ast, types) == [ast_hash |-> getTreeHash(ast), types |-> types]

\* PreparedSets::get(key): the set stored under the key, or null.
get(prepared_sets, key) ==
    IF \E i \in 1..Len(prepared_sets.sets) : prepared_sets.sets[i].key = key
    THEN prepared_sets.sets[CHOOSE i \in 1..Len(prepared_sets.sets) : prepared_sets.sets[i].key = key].set
    ELSE NoSet

RECURSIVE setsFrom(_, _, _)
setsFrom(entries, i, ast_hash) ==
    IF i > Len(entries) THEN <<>>
    ELSE (IF entries[i].key.ast_hash = ast_hash THEN <<entries[i].set>> ELSE <<>>)
         \o setsFrom(entries, i + 1, ast_hash)

\* PreparedSets::getByTreeHash(ast_hash): every set of that hash, in registry order.
getByTreeHash(prepared_sets, ast_hash) == setsFrom(prepared_sets.sets, 1, ast_hash)

(***************************************************************************)
(* RPNBuilderTreeContext                                                   *)
(***************************************************************************)
\* RPNBuilderTreeContext(query_context): no constants, no registry.
RPNBuilderTreeContextDefault == [block_with_constants |-> {}, prepared_sets |-> nullptr]

\* RPNBuilderTreeContext(query_context, block_with_constants, prepared_sets)
RPNBuilderTreeContext(block_with_constants_, prepared_sets_) ==
    [block_with_constants |-> block_with_constants_, prepared_sets |-> prepared_sets_]

(***************************************************************************)
(* RPNBuilderTreeNode                                                      *)
(***************************************************************************)
\* RPNBuilderTreeNode(const ActionsDAG::Node *, tree_context)
RPNBuilderTreeNodeOfDAG(dag_node_) == [ast_node |-> nullptr, dag_node |-> dag_node_]

\* RPNBuilderTreeNode(const IAST *, tree_context)
RPNBuilderTreeNodeOfAST(ast_node_) == [ast_node |-> ast_node_, dag_node |-> nullptr]

\* The outcome of a call: how it ended and what it returned.
NoResult ==
    [status |-> "none", error |-> "", bool |-> FALSE, str |-> "", num |-> 0, set |-> NoSet,
     type |-> NoType, column |-> NoColumn, output_value |-> NullField, output_type |-> NoType,
     key |-> ""]
Returned == [NoResult EXCEPT !.status = "ok"]
Thrown(code) == [NoResult EXCEPT !.status = "exception", !.error = code]
\* The process is killed (a read through a null or wrongly typed pointer).
Crashed == [NoResult EXCEPT !.status = "crash"]

getColumnName(n) ==
    IF n.ast_node # nullptr
    THEN astColumnNameWithoutAlias(n.ast_node)
    ELSE getColumnNameWithoutAlias(n.dag_node, FALSE)

getColumnNameWithModuloLegacy(n) ==
    IF n.ast_node # nullptr
    THEN astColumnNameWithoutAlias(moduloToModuloLegacyRecursive(n.ast_node))
    ELSE getColumnNameWithoutAlias(n.dag_node, TRUE)

isFunction(n) ==
    IF n.ast_node # nullptr
    THEN n.ast_node.kind = "ASTFunction"
    ELSE n.dag_node.type = "FUNCTION"

\* A slip: a constant-block entry counts whatever its column is.
isConstantOfAnyBlockEntry(n, ctx) ==
    IF n.ast_node # nullptr
    THEN \/ n.ast_node.kind = "ASTLiteral"
         \/ has(ctx.block_with_constants, astColumnName(n.ast_node))
    ELSE n.dag_node.column # NoColumn /\ isColumnConst(n.dag_node.column)

isConstant(n, ctx) ==
    IF n.ast_node # nullptr
    THEN IF n.ast_node.kind = "ASTLiteral" THEN TRUE
         ELSE LET column_name == astColumnName(n.ast_node)
                  block_with_constants == ctx.block_with_constants
              IN  /\ has(block_with_constants, column_name)
                  /\ isColumnConst(getByName(block_with_constants, column_name).entry.column)
    ELSE n.dag_node.column # NoColumn /\ isColumnConst(n.dag_node.column)

\* What a read of ASTLiteral::value through a pointer to another node kind may yield.
GarbageFields == {NullField, IntField(5)}

\* The possible outcomes of getConstantColumn().  assert_cast<const ASTLiteral *>
\* of a node that is no literal throws LOGICAL_ERROR in a build with assertions
\* and is a static_cast in a release build, whose pointer is never null: the
\* literal branch is then taken on an object that is no literal.
getConstantColumn(n, ctx) ==
    IF ~isConstant(n, ctx) THEN {Thrown("LOGICAL_ERROR")}
    ELSE IF n.ast_node # nullptr
    THEN IF n.ast_node.kind = "ASTLiteral"
         THEN LET type == FieldToDataType(n.ast_node.value)
              IN  {[Returned EXCEPT !.type = type, !.column = ColumnConst(n.ast_node.value)]}
         ELSE {Thrown("LOGICAL_ERROR"), Crashed}
              \cup {[Returned EXCEPT !.type = FieldToDataType(v), !.column = ColumnConst(v)] :
                        v \in GarbageFields}
    ELSE {[Returned EXCEPT !.type = n.dag_node.result_type, !.column = n.dag_node.column]}

\* lines 206-223: the literal branch of tryGetConstant
tryGetConstantOfLiteral(ast, block_with_constants, output_value, output_type) ==
    LET column_name == IF ~has(block_with_constants, astColumnName(ast))
                       THEN "_dummy" ELSE astColumnName(ast)
        value == ast.value
        found == getByName(block_with_constants, column_name)
    IN  IF ~found.found
        THEN [Thrown("NOT_FOUND_COLUMN_IN_BLOCK") EXCEPT
                  !.output_value = value, !.output_type = output_type, !.key = column_name]
        ELSE [Returned EXCEPT
                  !.bool = TRUE, !.output_value = value, !.key = column_name,
                  !.output_type = IF ~isNull(value) THEN removeNullable(found.entry.type)
                                  ELSE found.entry.type]

\* A slip: the default column is tried for an expression as it is for a literal.
constantColumnNameWithDefault(block_with_constants, column_name) ==
    IF ~has(block_with_constants, column_name) THEN "_dummy" ELSE column_name

\* lines 224-228: the name a non-literal expression is looked up under
constantColumnName(block_with_constants, column_name) == column_name

\* lines 224-236: the constant-block branch of tryGetConstant
tryGetConstantOfBlock(ast, block_with_constants, output_value, output_type) ==
    LET column_name == constantColumnName(block_with_constants, astColumnName(ast))
    IN  IF /\ has(block_with_constants, column_name)
           /\ isColumnConst(getByName(block_with_constants, column_name).entry.column)
        THEN LET constant_column == getByName(block_with_constants, column_name).entry
                 value == getField(constant_column.column)
             IN  [Returned EXCEPT
                      !.bool = TRUE, !.output_value = value, !.key = column_name,
                      !.output_type = IF ~isNull(value) THEN removeNullable(constant_column.type)
                                      ELSE constant_column.type]
        ELSE [Returned EXCEPT
                  !.bool = FALSE, !.output_value = output_value, !.output_type = output_type,
                  !.key = column_name]

\* A slip: the declared type is returned as it is.
tryGetConstantOfDAGKeepingNullable(dag, output_value, output_type) ==
    IF dag.column # NoColumn /\ isColumnConst(dag.column)
    THEN [Returned EXCEPT !.bool = TRUE, !.output_value = getField(dag.column),
                          !.output_type = dag.result_type]
    ELSE [Returned EXCEPT !.bool = FALSE, !.output_value = output_value,
                          !.output_type = output_type]

\* lines 238-250: the action-graph branch of tryGetConstant
tryGetConstantOfDAG(dag, output_value, output_type) ==
    IF dag.column # NoColumn /\ isColumnConst(dag.column)
    THEN LET value == getField(dag.column)
         IN  [Returned EXCEPT
                  !.bool = TRUE, !.output_value = value,
                  !.output_type = IF ~isNull(value) THEN removeNullable(dag.result_type)
                                  ELSE dag.result_type]
    ELSE [Returned EXCEPT !.bool = FALSE, !.output_value = output_value,
                          !.output_type = output_type]

tryGetConstant(n, ctx, output_value, output_type) ==
    IF n.ast_node # nullptr
    THEN IF n.ast_node.kind = "ASTLiteral"
         THEN tryGetConstantOfLiteral(n.ast_node, ctx.block_with_constants, output_value, output_type)
         ELSE tryGetConstantOfBlock(n.ast_node, ctx.block_with_constants, output_value, output_type)
    ELSE tryGetConstantOfDAG(n.dag_node, output_value, output_type)

(***************************************************************************)
(* Prepared-set lookups.                                                   *)
(***************************************************************************)
tryGetSetFromDAGNode(dag) ==
    IF dag.column = NoColumn THEN NoSet
    ELSE LET column == IF isColumnConst(dag.column) THEN getDataColumn(dag.column) ELSE dag.column
         IN  IF isColumnSet(column) /\ isCreated(getData(column)) THEN getData(column) ELSE NoSet

RECURSIVE firstCreated(_, _)
\* lines 287-289: the first set of sets[i..] that is created, or null
firstCreated(sets, i) ==
    IF i > Len(sets) THEN NoSet
    ELSE IF isCreated(sets[i]) THEN sets[i]
    ELSE firstCreated(sets, i + 1)

tryGetPreparedSet(n, ctx) ==
    LET prepared_sets == ctx.prepared_sets
    IN  IF n.ast_node # nullptr /\ prepared_sets # nullptr
        THEN firstCreated(getByTreeHash(prepared_sets, getTreeHash(n.ast_node)), 1)
        ELSE IF n.dag_node # nullptr THEN tryGetSetFromDAGNode(n.dag_node)
        ELSE NoSet

tryGetPreparedSetOfTypes(n, ctx, data_types) ==
    LET prepared_sets == ctx.prepared_sets
    IN  IF prepared_sets # nullptr /\ n.ast_node # nullptr
        THEN IF n.ast_node.kind \in {"ASTSubquery", "ASTTableIdentifier"}
             THEN get(prepared_sets, forSubquery(n.ast_node))
             ELSE get(prepared_sets, forLiteral(n.ast_node, data_types))
        ELSE IF n.dag_node # nullptr THEN tryGetSetFromDAGNode(n.dag_node)
        ELSE NoSet

\* A slip: a candidate is accepted as soon as one position agrees.
types_match_at_some_position(candidate_set, indexes_mapping, data_types) ==
    \E i \in 1..Len(indexes_mapping) :
        areTypesEqual(candidate_set, indexes_mapping[i].tuple_index, data_types[i])

\* lines 333-344: the lambda types_match
types_match(candidate_set, indexes_mapping, data_types) ==
    \A i \in 1..Len(indexes_mapping) :
        areTypesEqual(candidate_set, indexes_mapping[i].tuple_index, data_types[i])

RECURSIVE firstMatching(_, _, _, _)
\* lines 347-351: the first set of sets[i..] whose types match, or null
firstMatching(sets, i, indexes_mapping, data_types) ==
    IF i > Len(sets) THEN NoSet
    ELSE IF types_match(sets[i], indexes_mapping, data_types) THEN sets[i]
    ELSE firstMatching(sets, i + 1, indexes_mapping, data_types)

\* The possible outcomes of tryGetPreparedSet(indexes_mapping, data_types).  When
\* the first branch is not taken the code reads dag_node->column whatever
\* dag_node is: for a syntax-tree node without a registry that is a read
\* through a null pointer.
tryGetPreparedSetOfMapping(n, ctx, indexes_mapping, data_types) ==
    LET prepared_sets == ctx.prepared_sets
    IN  IF prepared_sets # nullptr /\ n.ast_node # nullptr
        THEN IF n.ast_node.kind \in {"ASTSubquery", "ASTTableIdentifier"}
             THEN {[Returned EXCEPT !.set = get(prepared_sets, forSubquery(n.ast_node))]}
             ELSE {[Returned EXCEPT
                       !.set = firstMatching(getByTreeHash(prepared_sets, getTreeHash(n.ast_node)),
                                             1, indexes_mapping, data_types)]}
        ELSE IF n.dag_node = nullptr THEN {Crashed, Returned}
        ELSE IF n.dag_node.column # NoColumn
        THEN {[Returned EXCEPT !.set = tryGetSetFromDAGNode(n.dag_node)]}
        ELSE {Returned}

(***************************************************************************)
(* RPNBuilderFunctionTreeNode                                              *)
(***************************************************************************)
getFunctionName(n) ==
    IF n.ast_node # nullptr THEN n.ast_node.name ELSE n.dag_node.function_name

getArgumentsSize(n) ==
    IF n.ast_node # nullptr THEN Len(n.ast_node.children) ELSE Len(n.dag_node.children)

\* index counted from 0
getArgumentAt(n, index) ==
    IF n.ast_node # nullptr
    THEN RPNBuilderTreeNodeOfAST(n.ast_node.children[index + 1])
    ELSE RPNBuilderTreeNodeOfDAG(n.dag_node.children[index + 1])

(***************************************************************************)
(* The nodes and contexts an analysis pass is built over.                  *)
(***************************************************************************)
FunctionNames == {"modulo", "plus"}

SetType == DataType("Set", FALSE)

Leaves ==
    { Input("col"),
      Column("ten", UInt8, ColumnConst(IntField(10))),
      Column("__set", SetType, ColumnSet(MakeSet(<<UInt8, StringType>>, TRUE))) }

RECURSIVE Expressions(_)
RECURSIVE Arguments(_)

\* The action-graph expressions of exactly n nodes.
Expressions(n) ==
    IF n = 1 THEN Leaves
    ELSE {Alias("a", c) : c \in Expressions(n - 1)}
         \cup {ArrayJoin(c) : c \in Expressions(n - 1)}
         \cup {Function(f, args) : f \in FunctionNames, args \in Arguments(n - 1)}

\* The argument lists of m nodes in all.
Arguments(m) ==
    {<<t>> : t \in Expressions(m)}
    \cup UNION {{<<t>> \o rest : t \in Expressions(k), rest \in Arguments(m - k)} : k \in 1..(m - 1)}

DAGExpressions == UNION {Expressions(n) : n \in 1..MaxNodes}

\* Action-graph nodes that carry a constant, a set, a full column or none.
DAGColumnNodes ==
    {Column("c", t, c) : t \in {UInt8, NullableUInt8},
                         c \in {ColumnConst(IntField(5)), ColumnConst(NullField), FullColumn}}
    \cup {Column("__set", SetType, c) :
            c \in UNION {{ColumnSet(MakeSet(<<UInt8, StringType>>, created)),
                          ColumnConstOfSet(MakeSet(<<UInt8, StringType>>, created))} : created \in BOOLEAN}}
    \cup {DAGNode("FUNCTION", "folded", "plus", t, ColumnConst(v), <<Input("col"), Input("col")>>) :
            t \in {UInt8, NullableUInt8}, v \in {IntField(5), NullField}}

ASTModulo == ASTFunction("modulo", "hash_modulo", <<ASTIdentifier("x"), ASTLiteral(IntField(5), "")>>)

\* Syntax-tree nodes the constant operations are asked about.
ASTConstantNodes ==
    { ASTLiteral(IntField(5), ""), ASTLiteral(NullField, ""), ASTLiteral(IntField(5), "x"),
      ASTIdentifier("x"), ASTModulo,
      ASTFunction("plus", "hash_plus", <<ASTModulo, ASTIdentifier("x")>>) }

\* Syntax-tree nodes on the right of IN.
ASTSetNodes == {ASTLiteral(IntField(5), ""), ASTSubquery, ASTTableIdentifier}

BlockNames == {"x", "5", "_dummy"}

BlockEntries(name) ==
    { ColumnWithTypeAndName(name, UInt8, ColumnConst(IntField(5))),
      ColumnWithTypeAndName(name, NullableUInt8, ColumnConst(IntField(5))),
      ColumnWithTypeAndName(name, NullableUInt8, ColumnConst(NullField)),
      ColumnWithTypeAndName(name, UInt8, FullColumn) }

\* Blocks: at most one entry per name.
Blocks ==
    {b \in SUBSET (UNION {BlockEntries(name) : name \in BlockNames}) :
        \A e1 \in b, e2 \in b : e1.name = e2.name => e1 = e2}

ElementTypes == {UInt8, StringType}
TupleTypes == {<<a, b>> : a \in ElementTypes, b \in ElementTypes}
TupleIndexes == {0, 1}

RegistryEntry(hash, key_types, set) == [key |-> [ast_hash |-> hash, types |-> key_types], set |-> set]

RegistryEntries ==
    {RegistryEntry("hash_literal", types, MakeSet(types, created)) :
        types \in TupleTypes, created \in BOOLEAN}
    \cup {RegistryEntry("hash_subquery", <<>>, MakeSet(<<UInt8, StringType>>, created)) :
            created \in BOOLEAN}
    \cup {RegistryEntry("hash_subquery", <<UInt8, UInt8>>, MakeSet(<<UInt8, UInt8>>, TRUE)),
          RegistryEntry("hash_literal", <<>>, MakeSet(<<StringType, StringType>>, FALSE))}

RECURSIVE EntryLists(_)
\* The lists of n entries with pairwise different keys.
EntryLists(n) ==
    IF n = 0 THEN {<<>>}
    ELSE {Append(l, e) : l \in EntryLists(n - 1), e \in RegistryEntries}

DistinctKeys(l) == \A i \in 1..Len(l), j \in 1..Len(l) : i # j => l[i].key # l[j].key

Registries ==
    {[sets |-> l] : l \in {p \in UNION {EntryLists(n) : n \in 0..MaxSets} : DistinctKeys(p)}}

\* The key positions of an index condition with the types of the key columns.
IndexesMappings ==
    {<<>>}
    \cup {<<[tuple_index |-> k]>> : k \in TupleIndexes}
    \cup {<<[tuple_index |-> 0], [tuple_index |-> 1]>>}

MappingArguments ==
    UNION {{[indexes_mapping |-> m, data_types |-> t] :
                t \in {s \in UNION {{<<>>}, {<<a>> : a \in ElementTypes}, TupleTypes} : Len(s) = Len(m)}} :
           m \in IndexesMappings}

Scenarios ==
    {[node |-> RPNBuilderTreeNodeOfAST(a), ctx |-> RPNBuilderTreeContext(b, nullptr)] :
        a \in ASTConstantNodes, b \in Blocks}
    \cup {[node |-> RPNBuilderTreeNodeOfAST(a), ctx |-> RPNBuilderTreeContext({}, r)] :
            a \in ASTSetNodes, r \in Registries}
    \cup {[node |-> RPNBuilderTreeNodeOfDAG(d), ctx |-> RPNBuilderTreeContextDefault] :
            d \in DAGExpressions}
    \cup {[node |-> RPNBuilderTreeNodeOfDAG(d), ctx |-> c] :
            d \in DAGColumnNodes,
            c \in {RPNBuilderTreeContextDefault,
                   RPNBuilderTreeContext({}, [sets |-> <<RegistryEntry("hash_literal", <<UInt8, UInt8>>,
                                                                      MakeSet(<<UInt8, UInt8>>, TRUE))>>])}}

(***************************************************************************)
(* The state machine.                                                      *)
(***************************************************************************)
NoCall ==
    [op |-> "construct", data_types |-> <<>>, indexes_mapping |-> <<>>, index |-> 0,
     output_value |-> NullField, output_type |-> NoType]

Call(op) == [NoCall EXCEPT !.op = op]

\* The caller's variables handed to tryGetConstant as its output arguments.
OutputValue == IntField(7)
OutputType == StringType

Init ==
    /\ \E s \in Scenarios : node = s.node /\ tree_context = s.ctx
    /\ is_function_view = FALSE
    /\ call = NoCall
    /\ ret = NoResult

GetColumnName ==
    /\ call' = Call("getColumnName")
    /\ ret' = [Returned EXCEPT !.str = getColumnName(node)]
    /\ UNCHANGED <<tree_context, node, is_function_view>>

GetColumnNameWithModuloLegacy ==
    /\ call' = Call("getColumnNameWithModuloLegacy")
    /\ ret' = [Returned EXCEPT !.str = getColumnNameWithModuloLegacy(node)]
    /\ UNCHANGED <<tree_context, node, is_function_view>>

IsFunction ==
    /\ call' = Call("isFunction")
    /\ ret' = [Returned EXCEPT !.bool = isFunction(node)]
    /\ UNCHANGED <<tree_context, node, is_function_view>>

IsConstant ==
    /\ call' = Call("isConstant")
    /\ ret' = [Returned EXCEPT !.bool = isConstant(node, tree_context)]
    /\ UNCHANGED <<tree_context, node, is_function_view>>

GetConstantColumn ==
    /\ call' = Call("getConstantColumn")
    /\ ret' \in getConstantColumn(node, tree_context)
    /\ UNCHANGED <<tree_context, node, is_function_view>>

TryGetConstant ==
    /\ call' = [Call("tryGetConstant") EXCEPT !.output_value = OutputValue, !.output_type = OutputType]
    /\ ret' = tryGetConstant(node, tree_context, OutputValue, OutputType)
    /\ UNCHANGED <<tree_context, node, is_function_view>>

TryGetPreparedSet ==
    /\ call' = Call("tryGetPreparedSet")
    /\ ret' = [Returned EXCEPT !.set = tryGetPreparedSet(node, tree_context)]
    /\ UNCHANGED <<tree_context, node, is_function_view>>

TryGetPreparedSetOfTypes ==
    \E data_types \in TupleTypes :
        /\ call' = [Call("tryGetPreparedSetOfTypes") EXCEPT !.data_types = data_types]
        /\ ret' = [Returned EXCEPT !.set = tryGetPreparedSetOfTypes(node, tree_context, data_types)]
        /\ UNCHANGED <<tree_context, node, is_function_view>>

TryGetPreparedSetOfMapping ==
    \E a \in MappingArguments :
        /\ call' = [Call("tryGetPreparedSetOfMapping") EXCEPT
                        !.indexes_mapping = a.indexes_mapping, !.data_types = a.data_types]
        /\ ret' \in tryGetPreparedSetOfMapping(node, tree_context, a.indexes_mapping, a.data_types)
        /\ UNCHANGED <<tree_context, node, is_function_view>>

ToFunctionNode ==
    /\ call' = Call("toFunctionNode")
    /\ IF ~isFunction(node)
       THEN ret' = Thrown("LOGICAL_ERROR") /\ UNCHANGED is_function_view
       ELSE ret' = Returned /\ is_function_view' = TRUE
    /\ UNCHANGED <<tree_context, node>>

ToFunctionNodeOrNull ==
    /\ call' = Call("toFunctionNodeOrNull")
    /\ IF ~isFunction(node)
       THEN ret' = [Returned EXCEPT !.bool = FALSE] /\ UNCHANGED is_function_view
       ELSE ret' = [Returned EXCEPT !.bool = TRUE] /\ is_function_view' = TRUE
    /\ UNCHANGED <<tree_context, node>>

GetFunctionName ==
    /\ is_function_view
    /\ call' = Call("getFunctionName")
    /\ ret' = [Returned EXCEPT !.str = getFunctionName(node)]
    /\ UNCHANGED <<tree_context, node, is_function_view>>

GetArgumentsSize ==
    /\ is_function_view
    /\ call' = Call("getArgumentsSize")
    /\ ret' = [Returned EXCEPT !.num = getArgumentsSize(node)]
    /\ UNCHANGED <<tree_context, node, is_function_view>>

\* The caller keeps index below getArgumentsSize(); the handle returned is a
\* plain node over the same tree context.
GetArgumentAt ==
    /\ is_function_view
    /\ \E index \in 0..(getArgumentsSize(node) - 1) :
        /\ call' = [Call("getArgumentAt") EXCEPT !.index = index]
        /\ node' = getArgumentAt(node, index)
    /\ ret' = Returned
    /\ is_function_view' = FALSE
    /\ UNCHANGED tree_context

Next ==
    \/ GetColumnName
    \/ GetColumnNameWithModuloLegacy
    \/ IsFunction
    \/ IsConstant
    \/ GetConstantColumn
    \/ TryGetConstant
    \/ TryGetPreparedSet
    \/ TryGetPreparedSetOfTypes
    \/ TryGetPreparedSetOfMapping
    \/ ToFunctionNode
    \/ ToFunctionNodeOrNull
    \/ GetFunctionName
    \/ GetArgumentsSize
    \/ GetArgumentAt

Spec == Init /\ [][Next]_vars

(***************************************************************************)
(* Properties.                                                             *)
(***************************************************************************)
SetLookups == {"tryGetPreparedSet", "tryGetPreparedSetOfTypes", "tryGetPreparedSetOfMapping"}

IsAST == node.ast_node # nullptr
IsDAG == node.dag_node # nullptr

\* The set a lookup handed back, if it handed one back.
ReturnedSet == ret.status = "ok" /\ ~ret.set.is_null

\* Every position of the call's mapping agrees with the set's element types.
TypesAgree(set) ==
    \A i \in 1..Len(call.indexes_mapping) :
        set.data_types[call.indexes_mapping[i].tuple_index + 1] = call.data_types[i]

\* The registry's sets of the node's structural hash.
SameHashSets == getByTreeHash(tree_context.prepared_sets, getTreeHash(node.ast_node))

\* C1: none of the three lookups returns a set whose created flag is false.
C1_OnlyCreatedSetsReturned ==
    (call.op \in SetLookups /\ ReturnedSet) => ret.set.is_created

\* C2 as stated: whatever the node, the mapping lookup returns a set only if
\* its element types agree with the expected types at every key position.
C2_Original_TypesAgreeForEveryNode ==
    (call.op = "tryGetPreparedSetOfMapping" /\ ReturnedSet) => TypesAgree(ret.set)

\* C2 amended: for a syntax-tree node that is neither a subquery nor a table
\* reference, the mapping lookup returns a set only if its element types agree
\* with the expected types at every key position, and it returns the only
\* agreeing set of the node's hash when there is exactly one, wherever it
\* stands in the registry; for a subquery or table reference it returns the
\* set under the subquery key, and for an action-graph node the created set of
\* the node's own column, with no comparison of types.
C2_TypesAgreeForLiteralNodes ==
    call.op = "tryGetPreparedSetOfMapping" =>
        /\ (IsAST /\ node.ast_node.kind \notin {"ASTSubquery", "ASTTableIdentifier"}) =>
              /\ ReturnedSet => TypesAgree(ret.set)
              /\ tree_context.prepared_sets # nullptr =>
                    \A i \in 1..Len(SameHashSets) :
                        (/\ TypesAgree(SameHashSets[i])
                         /\ \A j \in 1..Len(SameHashSets) : j # i => ~TypesAgree(SameHashSets[j]))
                            => (ret.status = "ok" /\ ret.set = SameHashSets[i])
        /\ (IsAST /\ node.ast_node.kind \in {"ASTSubquery", "ASTTableIdentifier"}
                  /\ tree_context.prepared_sets # nullptr) =>
              \A i \in 1..Len(tree_context.prepared_sets.sets) :
                  LET e == tree_context.prepared_sets.sets[i]
                  IN  (e.key.ast_hash = node.ast_node.tree_hash /\ e.key.types = <<>>)
                          => (ret.status = "ok" /\ ret.set = e.set)
        /\ IsDAG =>
              /\ ret.status = "ok"
              /\ ret.set.is_null \/ (ret.set = node.dag_node.column.set /\ ret.set.is_created)

\* C2 witness: two sets of the literal's hash, the second one alone agreeing
\* at both key positions, and the lookup returned the second.
C2_Witness ==
    /\ call.op = "tryGetPreparedSetOfMapping"
    /\ IsAST /\ node.ast_node.kind = "ASTLiteral"
    /\ tree_context.prepared_sets # nullptr
    /\ Len(call.indexes_mapping) = 2
    /\ Len(SameHashSets) = 2
    /\ ~TypesAgree(SameHashSets[1])
    /\ TypesAgree(SameHashSets[2])
    /\ ret.status = "ok" /\ ret.set = SameHashSets[2]

\* C3: the lookups return empty, without failing, for a syntax-tree node with
\* no registry, for a syntax-tree node whose hash has no registry entry, and
\* for an action-graph node without a column.
C3_EmptyWithoutFailure ==
    (/\ call.op \in SetLookups
     /\ \/ IsAST /\ tree_context.prepared_sets = nullptr
        \/ IsAST /\ tree_context.prepared_sets # nullptr /\ SameHashSets = <<>>
        \/ IsDAG /\ node.dag_node.column = NoColumn)
        => (ret.status = "ok" /\ ret.set.is_null)

\* C4: when isConstant() is true getConstantColumn() does not fail and returns
\* the literal's derived type and constant column, the constant-block entry of
\* the node's name, or the action-graph node's own type and column; it fails
\* with a logic error only when isConstant() is false.
C4_ConstantColumnOfEveryConstant ==
    call.op = "getConstantColumn" =>
        /\ isConstant(node, tree_context) =>
              /\ ret.status = "ok"
              /\ (IsAST /\ node.ast_node.kind = "ASTLiteral") =>
                    /\ ret.type = FieldToDataType(node.ast_node.value)
                    /\ ret.column = ColumnConst(node.ast_node.value)
              /\ (IsAST /\ node.ast_node.kind # "ASTLiteral") =>
                    LET entry == getByName(tree_context.block_with_constants,
                                           astColumnName(node.ast_node)).entry
                    IN  ret.type = entry.type /\ ret.column = entry.column
              /\ IsDAG =>
                    /\ ret.type = node.dag_node.result_type
                    /\ ret.column = node.dag_node.column
        /\ (ret.status = "exception" /\ ret.error = "LOGICAL_ERROR") => ~isConstant(node, tree_context)

\* C5: tryGetConstant never raises a failure, and when it returns false both
\* output arguments are as the caller passed them.
C5_TryGetConstantNeverFails ==
    call.op = "tryGetConstant" =>
        /\ ret.status = "ok"
        /\ ~ret.bool => (ret.output_value = call.output_value /\ ret.output_type = call.output_type)

\* The type tryGetConstant started from: the constant-block entry's type or
\* the action-graph node's declared type.
StoredType ==
    IF IsAST
    THEN getByName(tree_context.block_with_constants, ret.key).entry.type
    ELSE node.dag_node.result_type

\* C6: when tryGetConstant returns true, a non-null value comes with a type
\* that is not a nullable wrapper, and a null value with the stored or declared
\* type unchanged.
C6_NullabilityCollapse ==
    (call.op = "tryGetConstant" /\ ret.status = "ok" /\ ret.bool) =>
        /\ ~ret.output_value.is_null => ~ret.output_type.nullable
        /\ ret.output_value.is_null => ret.output_type = StoredType

\* C6 witness: an action-graph constant 5 declared Nullable(UInt8) was
\* extracted with type UInt8.
C6_Witness ==
    /\ call.op = "tryGetConstant" /\ ret.status = "ok" /\ ret.bool
    /\ IsDAG /\ node.dag_node.result_type = NullableUInt8
    /\ ret.output_value = IntField(5)
    /\ ret.output_type = UInt8

RECURSIVE WithLegacyFunctionNames(_)
RECURSIVE WithLegacyFunctionNamesIn(_, _)

WithLegacyFunctionNamesIn(children, i) ==
    IF i > Len(children) THEN <<>>
    ELSE <<WithLegacyFunctionNames(children[i])>> \o WithLegacyFunctionNamesIn(children, i + 1)

\* The expression with every function node named exactly "modulo" renamed.
WithLegacyFunctionNames(dag) ==
    [dag EXCEPT !.function_name = IF dag.type = "FUNCTION" /\ dag.function_name = "modulo"
                                  THEN "moduleLegacy" ELSE dag.function_name,
                !.children = WithLegacyFunctionNamesIn(dag.children, 1)]

Contains(s, sub) ==
    \E i \in 1..(Len(s) - Len(sub) + 1) : SubSeq(s, i, i + Len(sub) - 1) = sub

RECURSIVE HasFunctionNamed(_, _)
HasFunctionNamed(dag, name) ==
    \/ dag.type = "FUNCTION" /\ dag.function_name = name
    \/ \E i \in 1..Len(dag.children) : HasFunctionNamed(dag.children[i], name)

\* C7: the legacy-mode name of an action-graph expression is the default-mode
\* name of the expression with its "modulo" function nodes renamed
\* "moduleLegacy" at every depth, and the default-mode name holds no
\* "moduleLegacy" that the expression does not itself name.
C7_LegacyRenamesModuloOnly ==
    /\ (call.op = "getColumnNameWithModuloLegacy" /\ IsDAG) =>
          ret.str = getColumnNameWithoutAlias(WithLegacyFunctionNames(node.dag_node), FALSE)
    /\ (call.op = "getColumnName" /\ IsDAG /\ ~HasFunctionNamed(node.dag_node, "moduleLegacy")) =>
          ~Contains(ret.str, "moduleLegacy")

\* C7 witness: plus(alias of modulo(col), 10) named in legacy mode.
C7_Witness ==
    /\ call.op = "getColumnNameWithModuloLegacy" /\ IsDAG
    /\ node.dag_node.type = "FUNCTION" /\ node.dag_node.function_name = "plus"
    /\ Len(node.dag_node.children) = 1
    /\ node.dag_node.children[1].type = "ALIAS"
    /\ ret.str = "plus(moduleLegacy(col))"

RECURSIVE WithoutAliases(_)
RECURSIVE WithoutAliasesIn(_, _)

WithoutAliasesIn(children, i) ==
    IF i > Len(children) THEN <<>>
    ELSE <<WithoutAliases(children[i])>> \o WithoutAliasesIn(children, i + 1)

\* The expression with every alias node replaced by what it aliases.
WithoutAliases(dag) ==
    IF dag.type = "ALIAS" THEN WithoutAliases(dag.children[1])
    ELSE [dag EXCEPT !.children = WithoutAliasesIn(dag.children, 1)]

\* C8: the name of an action-graph expression, in default and in legacy mode,
\* is the name of the expression without its alias nodes, at the root and
\* below; an alias of arrayJoin(col) is named "arrayJoin(col)".
C8_AliasTransparency ==
    (call.op \in {"getColumnName", "getColumnNameWithModuloLegacy"} /\ IsDAG) =>
        LET legacy == call.op = "getColumnNameWithModuloLegacy"
        IN  /\ ret.str = getColumnNameWithoutAlias(WithoutAliases(node.dag_node), legacy)
            /\ node.dag_node.type = "ALIAS" =>
                  ret.str = getColumnNameWithoutAlias(node.dag_node.children[1], legacy)
            /\ node.dag_node = Alias("a", ArrayJoin(Input("col"))) => ret.str = "arrayJoin(col)"

\* C8 witness: an alias of arrayJoin over an alias of col, named.
C8_Witness ==
    /\ call.op = "getColumnName"
    /\ node = RPNBuilderTreeNodeOfDAG(Alias("a", ArrayJoin(Alias("a", Input("col")))))
    /\ ret.str = "arrayJoin(col)"

\* C9 as stated: a non-literal syntax-tree node whose own column name is absent
\* from the constant block is looked up under "_dummy".
C9_Original_DefaultKeyForExpressions ==
    (/\ call.op = "tryGetConstant"
     /\ IsAST /\ node.ast_node.kind # "ASTLiteral"
     /\ ~has(tree_context.block_with_constants, astColumnName(node.ast_node)))
        => ret.key = "_dummy"

\* C9 amended: the default key "_dummy" is used for literals: a literal whose
\* own column name is absent from the constant block takes its type from the
\* "_dummy" entry; a non-literal node whose own column name is absent is not
\* retried under "_dummy" and tryGetConstant returns false with the outputs as
\* passed, whether or not "_dummy" is in the block.
C9_DefaultKeyForLiteralsOnly ==
    (call.op = "tryGetConstant" /\ IsAST
        /\ ~has(tree_context.block_with_constants, astColumnName(node.ast_node))) =>
        /\ node.ast_node.kind = "ASTLiteral" =>
              /\ ret.key = "_dummy"
              /\ has(tree_context.block_with_constants, "_dummy") =>
                    /\ ret.status = "ok" /\ ret.bool
                    /\ removeNullable(ret.output_type) =
                          removeNullable(getByName(tree_context.block_with_constants, "_dummy").entry.type)
        /\ node.ast_node.kind # "ASTLiteral" =>
              /\ ret.key = astColumnName(node.ast_node)
              /\ ret.status = "ok" /\ ~ret.bool
              /\ ret.output_value = call.output_value /\ ret.output_type = call.output_type

\* C9 witness: x is absent and "_dummy" holds a constant, and tryGetConstant on
\* the identifier x returned false.
C9_Witness ==
    /\ call.op = "tryGetConstant"
    /\ node = RPNBuilderTreeNodeOfAST(ASTIdentifier("x"))
    /\ ~has(tree_context.block_with_constants, "x")
    /\ ColumnWithTypeAndName("_dummy", UInt8, ColumnConst(IntField(5))) \in tree_context.block_with_constants
    /\ ret.status = "ok" /\ ~ret.bool

\* C10: tryGetConstant returns true only if isConstant() is true, and does not
\* return false when isConstant() is true.
C10_SameClassification ==
    /\ call.op = "tryGetConstant" =>
          /\ (ret.status = "ok" /\ ret.bool) => isConstant(node, tree_context)
          /\ isConstant(node, tree_context) => ~(ret.status = "ok" /\ ~ret.bool)
    /\ call.op = "isConstant" =>
          LET r == tryGetConstant(node, tree_context, OutputValue, OutputType)
          IN  /\ (r.status = "ok" /\ r.bool) => ret.bool
              /\ ret.bool => ~(r.status = "ok" /\ ~r.bool)

\* C10 witness: a constant-block expression that both operations call a constant.
C10_Witness ==
    /\ call.op = "tryGetConstant"
    /\ IsAST /\ node.ast_node.kind = "ASTIdentifier"
    /\ isConstant(node, tree_context)
    /\ ret.status = "ok" /\ ret.bool

====
